---- MODULE Spec2Model ----
(***************************************************************************)
(* Model of scripts/merge_epg.py: the XMLTV feed merger.                   *)
(*                                                                         *)
(* Text is modelled as TLA+ strings, character for character, over the     *)
(* characters up to U+00FF: a text file is the string its bytes decode to  *)
(* (the files of the model hold valid UTF-8).  One character, Filler,      *)
(* abbreviates a long run of itself, so that a document above the size     *)
(* limit can be written down.  The file system is a function from the      *)
(* files that exist to their content; a directory is not in its domain.    *)
(* Python's None is the string None below, which no attribute value can    *)
(* equal, because it holds a double quote.                                 *)
(***************************************************************************)
EXTENDS Integers, Sequences, FiniteSets, TLC

\* ------------------------------------------------------------------ bounds
\* URLS has 16 entries; the model fetches the first NumUrls of them.
NumUrls == 2
\* Number of invocations of the script that a behaviour follows.
MaxRuns == 2
\* The number of consecutive "~" characters that one Filler stands for:
\* 50 MiB, so that one such run is below the size limit and two are above.
FillerBytes == 52428800

\* --------------------------------------------------------- program constants
Retries == 5
BackoffSeconds == 3
MaxSizeMB == 95

PLAYLIST_PATH == "playlist.m3u"
OUT_XML == "epg.xml"
TMP_DIR == ".tmp_epg"
None == "\"None\""

\* ------------------------------------------------------------ string helpers
\* s[i:] of Python, positions counted from 1.
From(s, i) == SubSeq(s, i, Len(s))

\* s.startswith(p)
StartsWith(s, p) == Len(s) >= Len(p) /\ SubSeq(s, 1, Len(p)) = p

\* s.find(p) + 1: the first position where p occurs in s, 0 when it does not.
Find(s, p) ==
  LET hits == {i \in 1..(Len(s) - Len(p) + 1) : SubSeq(s, i, i + Len(p) - 1) = p}
  IN IF hits = {} THEN 0 ELSE CHOOSE i \in hits : \A j \in hits : i <= j

\* p in s
Contains(s, p) == Find(s, p) # 0

\* s.split(sep, 1): <<before, after>> at the first sep, <<s>> when there is none.
Split1(s, sep) ==
  LET k == Find(s, sep)
  IN IF k = 0 THEN <<s>>
     ELSE <<SubSeq(s, 1, k - 1), From(s, k + Len(sep))>>

\* The characters str.strip() removes, up to U+00FF: U+0009 to U+000D,
\* U+001C to U+001F, U+0020, U+0085 and U+00A0.  Those with no escape are
\* written as themselves, in this order: U+000B, U+001C, U+001D, U+001E,
\* U+001F, U+0085, U+00A0.
Whitespace ==
  {" ", "\t", "\n", "\r", "\f",
   "", "", "", "", "", "", " "}

\* s.strip()
RECURSIVE LStrip(_)
LStrip(s) ==
  IF s # "" /\ SubSeq(s, 1, 1) \in Whitespace THEN LStrip(From(s, 2)) ELSE s

RECURSIVE RStrip(_)
RStrip(s) ==
  IF s # "" /\ SubSeq(s, Len(s), Len(s)) \in Whitespace
  THEN RStrip(SubSeq(s, 1, Len(s) - 1)) ELSE s

Strip(s) == RStrip(LStrip(s))

\* "".join(parts)
RECURSIVE Join(_)
Join(parts) == IF parts = <<>> THEN "" ELSE Head(parts) \o Join(Tail(parts))

\* Reading a file opened in text mode with the default newline=None: every
\* "\r\n" and every other "\r" of s becomes "\n".
RECURSIVE UniversalNewlines(_)
UniversalNewlines(s) ==
  LET k == Find(s, "\r")
  IN IF k = 0 THEN s
     ELSE SubSeq(s, 1, k - 1) \o "\n"
          \o UniversalNewlines(From(s, IF StartsWith(From(s, k + 1), "\n")
                                       THEN k + 2 ELSE k + 1))

\* The pieces of s that end at each "\n", a last piece without one kept when
\* it is not empty.
RECURSIVE LinesOf(_)
LinesOf(s) ==
  IF s = "" THEN <<>>
  ELSE LET k == Find(s, "\n")
       IN IF k = 0 THEN <<s>>
          ELSE <<SubSeq(s, 1, k)>> \o LinesOf(From(s, k + 1))

\* Iterating a file opened in text mode: the lines of s as the loop sees
\* them, each line end translated to "\n".
SplitLines(s) == LinesOf(UniversalNewlines(s))

\* f"{i:02d}"
Pad2(i) == IF i < 10 THEN "0" \o ToString(i) ELSE ToString(i)

\* os.path.join(TMP_DIR, f"{i:02d}.xml.gz")
GzPath(i) == TMP_DIR \o "/" \o Pad2(i) \o ".xml.gz"

\* ------------------------------------------------------------------ ATTR_RE
\* \w of the regular expression, which is compiled without re.ASCII: the
\* letters, the digits, "_" and, up to U+00FF, the letters and numeric
\* characters of Latin-1.
WordChars ==
  {"a","b","c","d","e","f","g","h","i","j","k","l","m","n","o","p","q","r","s",
   "t","u","v","w","x","y","z","A","B","C","D","E","F","G","H","I","J","K","L",
   "M","N","O","P","Q","R","S","T","U","V","W","X","Y","Z","0","1","2","3","4",
   "5","6","7","8","9","_",
   "ª","²","³","µ","¹","º","¼","½","¾","À","Á","Â","Ã","Ä","Å","Æ","Ç","È","É",
   "Ê","Ë","Ì","Í","Î","Ï","Ð","Ñ","Ò","Ó","Ô","Õ","Ö","Ø","Ù","Ú","Û","Ü","Ý",
   "Þ","ß","à","á","â","ã","ä","å","æ","ç","è","é","ê","ë","ì","í","î","ï","ð",
   "ñ","ò","ó","ô","õ","ö","ø","ù","ú","û","ü","ý","þ","ÿ"}

\* [\w\-]
KeyChars == WordChars \cup {"-"}

\* The end of the longest run of KeyChars that starts at position i of s.
RECURSIVE RunEnd(_, _)
RunEnd(s, i) ==
  IF i < Len(s) /\ SubSeq(s, i + 1, i + 1) \in KeyChars THEN RunEnd(s, i + 1) ELSE i

\* ATTR_RE.findall(s): the <<key, value>> pairs of the matches of
\* (\w[\w\-]*)="([^"]*)" in s, leftmost first, not overlapping.
RECURSIVE AttrFindall(_)
AttrFindall(s) ==
  IF s = "" THEN <<>>
  ELSE IF SubSeq(s, 1, 1) \notin WordChars THEN AttrFindall(From(s, 2))
  ELSE LET e == RunEnd(s, 1)
           rest == From(s, e + 1)
       IN IF StartsWith(rest, "=\"") /\ Contains(From(rest, 3), "\"")
          THEN LET val == Split1(From(rest, 3), "\"")
               IN <<<<SubSeq(s, 1, e), val[1]>>>> \o AttrFindall(val[2])
          ELSE AttrFindall(From(s, 2))

\* dict(pairs).get(key): the value of the last pair with that key, or None.
RECURSIVE DictGet(_, _)
DictGet(pairs, key) ==
  IF pairs = <<>> THEN None
  ELSE LET last == pairs[Len(pairs)]
       IN IF last[1] = key THEN last[2]
          ELSE DictGet(SubSeq(pairs, 1, Len(pairs) - 1), key)

\* Python truth of an optional string: neither None nor empty.
Truthy(v) == v # None /\ v # ""

\* a or b or c
Or3(a, b, c) == IF Truthy(a) THEN a ELSE IF Truthy(b) THEN b ELSE c

\* ------------------------------------------------------ load_allowed_tvg_ids
\* AllowedAfterLine with the identifier added as written, not stripped.
AllowedAfterLineNoStrip(acc, line) ==
  IF StartsWith(line, "#EXTINF")
  THEN LET attrs == AttrFindall(line)
           tvg_id == Or3(DictGet(attrs, "tvg-id"), DictGet(attrs, "tvgid"),
                         DictGet(attrs, "tvg_id"))
       IN IF Truthy(tvg_id) THEN acc \cup {tvg_id} ELSE acc
  ELSE acc

\* The body of the loop over the playlist's lines: the set after one line.
AllowedAfterLine(acc, line) ==
  IF StartsWith(line, "#EXTINF")
  THEN LET attrs == AttrFindall(line)
           tvg_id == Or3(DictGet(attrs, "tvg-id"), DictGet(attrs, "tvgid"),
                         DictGet(attrs, "tvg_id"))
       IN IF Truthy(tvg_id) THEN acc \cup {Strip(tvg_id)} ELSE acc
  ELSE acc

RECURSIVE AllowedFrom(_, _)
AllowedFrom(acc, lines) ==
  IF lines = <<>> THEN acc
  ELSE AllowedFrom(AllowedAfterLine(acc, Head(lines)), Tail(lines))

\* load_allowed_tvg_ids on a playlist file that exists: the set it builds
\* (it raises ValueError instead of returning the empty set).
LoadAllowedTvgIds(text) == AllowedFrom({}, SplitLines(text))

\* ---------------------------------------------------- iter_xmltv_inner_lines
\* The lines the generator yields from the decompressed lines of one feed.
RECURSIVE InnerFrom(_, _)
InnerFrom(lines, in_tv) ==
  IF lines = <<>> THEN <<>>
  ELSE LET line == Head(lines) IN
    IF ~in_tv
    THEN IF Contains(line, "<tv")
         THEN LET after == Split1(line, ">")
              IN (IF Len(after) = 2 /\ Strip(after[2]) # "" THEN <<after[2]>> ELSE <<>>)
                 \o InnerFrom(Tail(lines), TRUE)
         ELSE InnerFrom(Tail(lines), FALSE)
    ELSE IF Contains(line, "</tv>")
         THEN LET before == Split1(line, "</tv>")[1]
              IN IF Strip(before) # "" THEN <<before>> ELSE <<>>
         ELSE <<line>> \o InnerFrom(Tail(lines), TRUE)

IterXmltvInnerLines(text) == InnerFrom(SplitLines(text), FALSE)

\* iter_xmltv_inner_lines, lines 85-97: whether the loop over these lines
\* reaches the break of line 97.
RECURSIVE Closes(_, _)
Closes(lines, in_tv) ==
  IF lines = <<>> THEN FALSE
  ELSE LET line == Head(lines) IN
    IF ~in_tv
    THEN Closes(Tail(lines), Contains(line, "<tv"))
    ELSE Contains(line, "</tv>") \/ Closes(Tail(lines), TRUE)

\* In the sequence of lines a generator has still to yield, the place where
\* its read of the file raises EOFError.  No line the generator yields is
\* the empty string.
EofMark == ""

\* iter_xmltv_inner_lines on a gzip stream of the text that stops before its
\* end-of-stream marker, lines 83-98: the stream still gives the first k
\* lines of the text in full, for some k; the generator yields from them as
\* from any lines, and then its read raises EOFError, unless the break of
\* line 97 has closed the file before.
CutYields(text) ==
  LET lines == SplitLines(text)
      full == {k \in 0..Len(lines) :
                 k = 0 \/ SubSeq(lines[k], Len(lines[k]), Len(lines[k])) = "\n"}
  IN {InnerFrom(SubSeq(lines, 1, k), FALSE)
        \o (IF Closes(SubSeq(lines, 1, k), FALSE) THEN <<>> ELSE <<EofMark>>) :
      k \in full}

\* ------------------------------------------------------------- block scanner
\* The scanner's variables and the text it has written, as one record:
\* [buf, block_type, channel_id, programme_channel, out].
ScanInit ==
  [buf |-> <<>>, block_type |-> None, channel_id |-> None,
   programme_channel |-> None, out |-> ""]

\* line.split(attr, 1)[1].split('"', 1)[0]
AttrValue(line, attr) == Split1(Split1(line, attr)[2], "\"")[1]

\* flush_block()
FlushBlock(s, allowedIds) ==
  IF s.buf = <<>> \/ s.block_type = None
  THEN [s EXCEPT !.buf = <<>>, !.block_type = None]
  ELSE LET text == Join(s.buf)
           keep == \/ s.block_type = "channel" /\ s.channel_id \in allowedIds
                   \/ s.block_type = "programme" /\ s.programme_channel \in allowedIds
       IN [buf |-> <<>>, block_type |-> None, channel_id |-> None,
           programme_channel |-> None,
           out |-> IF keep THEN s.out \o text ELSE s.out]

\* The body of the loop over the inner lines: the scanner after one line.
ScanStep(s, line, allowedIds) ==
  IF s.block_type = None
  THEN IF Contains(line, "<channel ")
       THEN [s EXCEPT !.block_type = "channel", !.buf = <<line>>,
                      !.channel_id = IF Contains(line, "id=\"")
                                     THEN AttrValue(line, "id=\"") ELSE @]
       ELSE IF Contains(line, "<programme ")
       THEN [s EXCEPT !.block_type = "programme", !.buf = <<line>>,
                      !.programme_channel = IF Contains(line, "channel=\"")
                                            THEN AttrValue(line, "channel=\"") ELSE @]
       ELSE s
  ELSE LET t == [s EXCEPT !.buf = Append(@, line)]
       IN IF t.block_type = "channel" /\ Contains(line, "</channel>")
          THEN FlushBlock(t, allowedIds)
          ELSE IF t.block_type = "programme" /\ Contains(line, "</programme>")
          THEN FlushBlock(t, allowedIds)
          ELSE t

\* The loop over the inner lines of one feed, from scanner s.
RECURSIVE ScanLines(_, _, _)
ScanLines(s, lines, allowedIds) ==
  IF lines = <<>> THEN s
  ELSE ScanLines(ScanStep(s, Head(lines), allowedIds), Tail(lines), allowedIds)

\* The loop over gz_files: the feed texts scanned in order, from scanner s.
RECURSIVE ScanFeeds(_, _, _)
ScanFeeds(s, texts, allowedIds) ==
  IF texts = <<>> THEN s
  ELSE ScanFeeds(ScanLines(s, IterXmltvInnerLines(Head(texts)), allowedIds),
                 Tail(texts), allowedIds)

\* What main() writes between the header and the closing tag.
MergedBody(texts, allowedIds) ==
  FlushBlock(ScanFeeds(ScanInit, texts, allowedIds), allowedIds).out

\* --------------------------------------------------------------- the header
\* datetime.utcnow().isoformat() at t seconds past the epoch, t < 60.
IsoFormat(t) == "1970-01-01T00:00:" \o Pad2(t)

HeaderText(t) ==
  "<!-- generated: " \o IsoFormat(t) \o "Z -->\n"
  \o "<?xml version=\"1.0\" encoding=\"UTF-8\"?>\n"
  \o "<tv generator-info-name=\"my-epg\">\n"

FooterText == "</tv>\n"

\* ------------------------------------------------------------------- inputs
\* In a modelled text this one character stands for FillerBytes consecutive
\* "~" characters; no text of the model holds a "~" that stands for itself.
Filler == "~"

\* Decompressed feed texts in several line layouts and with several line
\* ends, one of them with a long element, and one payload that is no gzip
\* data.  The inputs are ASCII texts.
FeedMultiLine ==
  "<?xml version=\"1.0\"?>\n<tv>\n<channel id=\"ABC.us\">\n"
  \o "<display-name>" \o Filler \o "</display-name>\n</channel>\n"
  \o "<programme channel=\"XYZ.us\">\n</programme>\n</tv>\n"
FeedOnePerLine ==
  "<tv>\n<channel id=\"ABC.us\">a</channel>\n<channel id=\"XYZ.us\">x</channel>\n</tv>\n"
FeedOneLine == "<tv><channel id=\"ABC.us\">a</channel></tv>\n"
FeedUnterminated ==
  "<tv>\r\n<programme channel=\"ABC.us\">\r\n<title>t</title>\r\n"

\* A response, or a feed file, is [gz, text, cut]: whether its bytes are
\* gzip data, the text they decompress to (its own text when it is no gzip
\* data), and, of a file, whether it holds the bytes of the response in full
\* (cut is FALSE) or some number of its first bytes, which one is not
\* recorded (cut is TRUE).
\* A response that is no gzip data.
HtmlPayload == [gz |-> FALSE, text |-> "<html>503</html>", cut |-> FALSE]

\* The response that is the complete gzip stream of a text.
Gzip(text) == [gz |-> TRUE, text |-> text, cut |-> FALSE]

Payloads ==
  {Gzip(FeedMultiLine), Gzip(FeedOnePerLine), Gzip(FeedOneLine),
   Gzip(FeedUnterminated), HtmlPayload}

PlaylistPlain == "#EXTM3U\n#EXTINF:-1 tvg-id=\"ABC.us\",Channel ABC\nhttp://h/a\n"
\* The identifier is padded with a form feed and a space before it and with
\* a space and a tab after it.
PlaylistPadded ==
  "#EXTINF:-1 tvg-id=\"\f ABC.us \t\" tvgid=\"B\",A\n#KODIPROP tvg-id=\"XYZ.us\"\n"
\* The first line ends with "\r", the second with "\r\n".
PlaylistVariants ==
  "#EXTINF:-1 tvg-id=\"\" tvg_id=\"XYZ.us\",X\r#EXTINF:-1 tvgid=\"A\" tvgid=\"B\",B\r\n"
PlaylistNoIds == "#EXTINF:-1 tvg-name=\"n\",C\n"

Playlists == {PlaylistPlain, PlaylistPadded, PlaylistVariants, PlaylistNoIds}

\* A previously published document: no blocks, and a header that carries
\* what the clock reads in the first invocation.
OldDocument == HeaderText(1) \o FooterText

\* The exceptions the except clause of download() names.
TransientErrors == {"HTTPError", "URLError", "TimeoutError"}

\* An exception of a class that the except clause of line 58 does not name,
\* raised by a call of lines 52-56: every such class, ssl.SSLError,
\* http.client's, OSError and MemoryError among them, is this one value.
OtherError == "exception other than HTTPError, URLError, TimeoutError"

\* The file that holds some of the first bytes of a response: none of
\* them, any number of them, or all of them.
CutOf(payload) == [gz |-> payload.gz, text |-> payload.text, cut |-> TRUE]

\* iter_xmltv_inner_lines, lines 83-98, on a feed file: the exception its
\* first read raises, or the lines it yields.  Data that is no gzip stream
\* raises BadGzipFile.  Of a file that holds only first bytes of a response:
\* no byte is read as a feed with no lines; one byte, or more of a response
\* that is no gzip data, raises BadGzipFile; more of a gzip stream is a
\* stream that stops, or the stream in full.
ReadOutcomes(file) ==
  LET bad == [raises |-> "BadGzipFile", yields |-> <<>>]
      lines(y) == [raises |-> None, yields |-> y]
  IN IF ~file.cut
     THEN IF file.gz THEN {lines(IterXmltvInnerLines(file.text))} ELSE {bad}
     ELSE {lines(<<>>), bad}
          \cup (IF file.gz
                THEN {lines(y) : y \in CutYields(file.text)}
                     \cup {lines(IterXmltvInnerLines(file.text))}
                ELSE {})

\* The exception object an attempt raises.
ErrorOf(kind, k) == kind \o " at attempt " \o ToString(k)

\* -------------------------------------------------------------------- state
VARIABLES
  fs,            \* the files that exist |-> their content
  remote,        \* what each URL serves: [gz, text, cut]
  run,           \* the number of this invocation of the script
  now,           \* what datetime.utcnow() reads during this invocation
  prev_result,   \* how the invocation before ended, "none" when none
  pc,            \* where main() is
  result,        \* "running", "0" (return 0) or the exception raised
  allowed,       \* main: allowed
  i,             \* main: the URL being downloaded
  attempt,       \* download: attempt
  last_err,      \* download: last_err, None or the exception
  slept,         \* download: the time.sleep calls of this download, in order
  gz_files,      \* main: gz_files
  gz_idx,        \* main: how many of gz_files the outer loop has opened
  pending,       \* the lines the open generator has still to yield, see EofMark
  scan,          \* main: buf, block_type, channel_id, programme_channel
  xml_at_start,  \* epg.xml as the invocation found it, None when absent
  tmp_at_start   \* epg.xml.tmp as the invocation found it, None when absent

vars == <<fs, remote, run, now, prev_result, pc, result, allowed, i, attempt, last_err, slept,
          gz_files, gz_idx, pending, scan, xml_at_start, tmp_at_start>>

\* OutTmp with the output written in place.
OutTmpInPlace == OUT_XML

\* main, line 113: out_tmp.
OutTmp == OUT_XML \o ".tmp"

\* ---------------------------------------------------------------- file system
Exists(path) == path \in DOMAIN fs

WriteFile(f, path, data) ==
  [p \in DOMAIN f \cup {path} |-> IF p = path THEN data ELSE f[p]]

RemoveFile(f, path) == [p \in DOMAIN f \ {path} |-> f[p]]

\* os.replace(src, dst)
ReplaceFile(f, src, dst) == RemoveFile(WriteFile(f, dst, f[src]), src)

\* sha256_file(path): a digest that is equal exactly for equal content.
Sha256File(path) == <<"sha256", fs[path]>>

\* The characters U+0080 to U+00FF, in order: those that UTF-8 encodes in
\* two bytes.
NonAscii ==
  {"","","","","","","","","","","","","","","","","","","",
   "","","","","","","","","","","","",""," ","¡","¢","£","¤","¥",
   "¦","§","¨","©","ª","«","¬","­","®","¯","°","±","²","³","´","µ","¶","·","¸",
   "¹","º","»","¼","½","¾","¿","À","Á","Â","Ã","Ä","Å","Æ","Ç","È","É","Ê","Ë",
   "Ì","Í","Î","Ï","Ð","Ñ","Ò","Ó","Ô","Õ","Ö","×","Ø","Ù","Ú","Û","Ü","Ý","Þ",
   "ß","à","á","â","ã","ä","å","æ","ç","è","é","ê","ë","ì","í","î","ï","ð","ñ",
   "ò","ó","ô","õ","ö","÷","ø","ù","ú","û","ü","ý","þ","ÿ"}

\* len(s.encode("utf-8")): one byte for each character, one more for each
\* that is not ASCII, and FillerBytes for each Filler.
Utf8Len(s) ==
  Len(s)
  + Cardinality({k \in 1..Len(s) : SubSeq(s, k, k) \in NonAscii})
  + (FillerBytes - 1) * Cardinality({k \in 1..Len(s) : SubSeq(s, k, k) = Filler})

\* os.path.getsize(path), in bytes.
GetSize(path) == Utf8Len(fs[path])

ReadXml(f) == IF OUT_XML \in DOMAIN f THEN f[OUT_XML] ELSE None

ReadTmp(f) == IF OutTmp \in DOMAIN f THEN f[OutTmp] ELSE None

\* The scanner record of ScanStep and FlushBlock: the variables and the text
\* written to the temporary file.
Scanner == [buf |-> scan.buf, block_type |-> scan.block_type,
            channel_id |-> scan.channel_id,
            programme_channel |-> scan.programme_channel, out |-> fs[OutTmp]]

VarsOf(s) == [buf |-> s.buf, block_type |-> s.block_type,
              channel_id |-> s.channel_id,
              programme_channel |-> s.programme_channel]

\* The local variables of main() and download() before they are assigned.
Locals ==
  /\ allowed = {} /\ i = 0 /\ attempt = 0 /\ last_err = None /\ slept = <<>>
  /\ gz_files = <<>> /\ gz_idx = 0 /\ pending = <<>>
  /\ scan = VarsOf(ScanInit)

\* The working directory before the first invocation: empty; the playlist
\* alone; what an earlier invocation has left, a published document and a
\* feed file in TMP_DIR, with and without a playlist; the playlist and a
\* regular file where TMP_DIR should be.
InitialFiles ==
  {[p \in {} |-> ""]}
  \cup {[p \in {PLAYLIST_PATH} |-> pl] :
           pl \in {PlaylistPlain, PlaylistPadded, PlaylistNoIds}}
  \cup {[p \in {OUT_XML, GzPath(1)} |->
           IF p = OUT_XML THEN OldDocument ELSE HtmlPayload]}
  \cup {[p \in {PLAYLIST_PATH, OUT_XML, GzPath(1)} |->
           IF p = PLAYLIST_PATH THEN pl
           ELSE IF p = OUT_XML THEN OldDocument ELSE HtmlPayload] :
           pl \in {PlaylistVariants, PlaylistNoIds}}
  \cup {[p \in {PLAYLIST_PATH, TMP_DIR} |->
           IF p = PLAYLIST_PATH THEN PlaylistPlain ELSE ""]}

\* What the URLs serve: every assignment of the responses to the URLs; the
\* padded playlist, an input of the loader, comes with one of them.
InitialRemotes(files) ==
  IF PLAYLIST_PATH \in DOMAIN files /\ files[PLAYLIST_PATH] = PlaylistPadded
  THEN {[k \in 1..NumUrls |-> Gzip(FeedOnePerLine)]}
  ELSE [1..NumUrls -> Payloads]

Init ==
  /\ fs \in InitialFiles
  /\ remote \in InitialRemotes(fs)
  /\ run = 1 /\ now = 1 /\ prev_result = "none"
  /\ pc = "start" /\ result = "running"
  /\ Locals
  /\ xml_at_start = ReadXml(fs) /\ tmp_at_start = ReadTmp(fs)

\* The process ends and its local variables with it.
Exit(state, res) ==
  /\ pc' = state /\ result' = res
  /\ allowed' = {} /\ i' = 0 /\ attempt' = 0 /\ last_err' = None /\ slept' = <<>>
  /\ gz_files' = <<>> /\ gz_idx' = 0 /\ pending' = <<>>
  /\ scan' = VarsOf(ScanInit)

Raise(exc) == Exit("failed", exc)

Return0 == Exit("done", "0")

\* ------------------------------------------------------------------ actions
\* What no step of main() changes.
Env == <<remote, run, now, prev_result, xml_at_start, tmp_at_start>>

\* main, lines 101-104: load the allow-list and make sure of TMP_DIR, or
\* raise.  os.makedirs(exist_ok=True) raises when a file that is no
\* directory has the name.
LoadPlaylist ==
  /\ pc = "start"
  /\ IF ~Exists(PLAYLIST_PATH)
     THEN Raise("FileNotFoundError")
     ELSE LET ids == LoadAllowedTvgIds(fs[PLAYLIST_PATH])
          IN IF ids = {}
             THEN Raise("ValueError")
             ELSE IF Exists(TMP_DIR)
             THEN Raise("FileExistsError")
             ELSE /\ allowed' = ids
                  /\ pc' = "download" /\ i' = 1 /\ attempt' = 1
                  /\ UNCHANGED <<result, last_err, slept, gz_files, gz_idx,
                                 pending, scan>>
  /\ UNCHANGED <<fs, Env>>

\* download, lines 55-56: the files after open(out_path, "wb") or f.write
\* has raised.  open() that raises leaves the files as they are; after it
\* the file is truncated and holds as much of the response as was written.
WriteLeaves(f, path, payload) == {f, WriteFile(f, path, CutOf(payload))}

\* download, lines 52-54: the request is answered and the response read in
\* full; data is remote[i].
DownloadFetch ==
  /\ pc = "download" /\ attempt <= Retries
  /\ pc' = "store"
  /\ UNCHANGED <<fs, result, allowed, i, attempt, last_err, slept, gz_files,
                 gz_idx, pending, scan, Env>>

\* download, lines 55-57, and main, lines 107-111: the response is stored,
\* download() returns, and main goes on to the next URL or to the merge.
DownloadOk ==
  /\ pc = "store"
  /\ fs' = WriteFile(fs, GzPath(i), remote[i])
  /\ gz_files' = Append(gz_files, GzPath(i))
  /\ IF i < NumUrls
     THEN i' = i + 1 /\ attempt' = 1 /\ pc' = "download"
     ELSE pc' = "open" /\ UNCHANGED <<i, attempt>>
  /\ last_err' = None /\ slept' = <<>>
  /\ UNCHANGED <<result, allowed, gz_idx, pending, scan, Env>>

\* DownloadRetry with the same wait after every failure.
DownloadRetryFlatSleep ==
  /\ pc \in {"download", "store"} /\ attempt <= Retries
  /\ \E kind \in TransientErrors :
       /\ last_err' = ErrorOf(kind, attempt)
       /\ IF pc = "download"
          THEN UNCHANGED fs
          ELSE /\ kind = "TimeoutError"
               /\ fs' \in WriteLeaves(fs, GzPath(i), remote[i])
  /\ slept' = Append(slept, BackoffSeconds)
  /\ attempt' = attempt + 1
  /\ pc' = "download"
  /\ UNCHANGED <<result, allowed, i, gz_files, gz_idx, pending, scan, Env>>

\* download, lines 58-61: a caught failure, then the sleep, then the next
\* attempt.  urlopen() and resp.read() raise any of the three classes and
\* leave the files alone; open() and f.write() raise TimeoutError of them,
\* and the feed file is as the failed write leaves it.
DownloadRetry ==
  /\ pc \in {"download", "store"} /\ attempt <= Retries
  /\ \E kind \in TransientErrors :
       /\ last_err' = ErrorOf(kind, attempt)
       /\ IF pc = "download"
          THEN UNCHANGED fs
          ELSE /\ kind = "TimeoutError"
               /\ fs' \in WriteLeaves(fs, GzPath(i), remote[i])
  /\ slept' = Append(slept, BackoffSeconds * attempt)
  /\ attempt' = attempt + 1
  /\ pc' = "download"
  /\ UNCHANGED <<result, allowed, i, gz_files, gz_idx, pending, scan, Env>>

\* DownloadRaise with the last failure swallowed: download() returns and
\* main() goes on as after a success, with no file stored.
DownloadRaiseSwallowed ==
  /\ pc = "download" /\ attempt = Retries + 1
  /\ gz_files' = Append(gz_files, GzPath(i))
  /\ IF i < NumUrls
     THEN i' = i + 1 /\ attempt' = 1 /\ pc' = "download"
     ELSE pc' = "open" /\ UNCHANGED <<i, attempt>>
  /\ last_err' = None /\ slept' = <<>>
  /\ UNCHANGED <<fs, result, allowed, gz_idx, pending, scan, Env>>

\* download, line 62: the attempts are used up.
DownloadRaise ==
  /\ pc = "download" /\ attempt = Retries + 1
  /\ Raise(last_err)
  /\ UNCHANGED <<fs, Env>>

\* download, lines 52-58: an exception the except clause does not name
\* leaves download() and main().  Raised by urlopen() or resp.read() it
\* leaves the files alone; raised by open() or f.write() it leaves the feed
\* file as the failed write leaves it.
DownloadUncaught ==
  /\ pc \in {"download", "store"} /\ attempt <= Retries
  /\ Raise(OtherError)
  /\ IF pc = "download"
     THEN UNCHANGED fs
     ELSE fs' \in WriteLeaves(fs, GzPath(i), remote[i])
  /\ UNCHANGED Env

\* main, lines 113-122: open the temporary file, write the header.
OpenTmp ==
  /\ pc = "open"
  /\ fs' = WriteFile(fs, OutTmp, HeaderText(now))
  /\ scan' = VarsOf(ScanInit)
  /\ gz_idx' = 0 /\ pending' = <<>>
  /\ pc' = "scan"
  /\ UNCHANGED <<result, allowed, i, attempt, last_err, slept, gz_files, Env>>

\* main, lines 143-144, and iter_xmltv_inner_lines, lines 83-85: the next
\* feed is opened and read.
OpenFeed ==
  /\ pc = "scan" /\ pending = <<>> /\ gz_idx < Len(gz_files)
  /\ LET path == gz_files[gz_idx + 1]
     IN IF ~Exists(path) THEN Raise("FileNotFoundError")
        ELSE \E read \in ReadOutcomes(fs[path]) :
               IF read.raises # None THEN Raise(read.raises)
               ELSE /\ pending' = read.yields
                    /\ gz_idx' = gz_idx + 1
                    /\ UNCHANGED <<pc, result, allowed, i, attempt, last_err,
                                   slept, gz_files, scan>>
  /\ UNCHANGED <<fs, Env>>

\* main, lines 145-169: one inner line; or, line 85, the read that raises
\* where the stream stops, with the temporary file left as written so far.
ScanLine ==
  /\ pc = "scan" /\ pending # <<>>
  /\ IF Head(pending) = EofMark
     THEN Raise("EOFError") /\ UNCHANGED fs
     ELSE LET s == ScanStep(Scanner, Head(pending), allowed)
          IN /\ scan' = VarsOf(s)
             /\ fs' = WriteFile(fs, OutTmp, s.out)
             /\ pending' = Tail(pending)
             /\ UNCHANGED <<pc, result, allowed, i, attempt, last_err, slept,
                            gz_files, gz_idx>>
  /\ UNCHANGED Env

\* main, lines 171-172: the last flush, the closing tag, the file is closed.
WriteFooter ==
  /\ pc = "scan" /\ pending = <<>> /\ gz_idx = Len(gz_files)
  /\ LET s == FlushBlock(Scanner, allowed)
     IN /\ scan' = VarsOf(s)
        /\ fs' = WriteFile(fs, OutTmp, s.out \o FooterText)
  /\ pc' = "publish"
  /\ UNCHANGED <<result, allowed, i, attempt, last_err, slept, gz_files, gz_idx,
                 pending, Env>>

\* main, lines 174-178: the hashes agree.
NoChange ==
  /\ pc = "publish"
  /\ Exists(OUT_XML) /\ Sha256File(OUT_XML) = Sha256File(OutTmp)
  /\ fs' = RemoveFile(fs, OutTmp)
  /\ Return0
  /\ UNCHANGED Env

\* main, line 180.
Replace ==
  /\ pc = "publish"
  /\ ~(Exists(OUT_XML) /\ Sha256File(OUT_XML) = Sha256File(OutTmp))
  /\ fs' = ReplaceFile(fs, OutTmp, OUT_XML)
  /\ pc' = "replaced"
  /\ UNCHANGED <<result, allowed, i, attempt, last_err, slept, gz_files, gz_idx,
                 pending, scan, Env>>

\* main, lines 181-187.
SizeCheck ==
  /\ pc = "replaced"
  /\ IF GetSize(OUT_XML) > MaxSizeMB * (1024 * 1024)
     THEN Raise("RuntimeError")
     ELSE Return0
  /\ UNCHANGED <<fs, Env>>

\* Lines 189-190: the script is run again on the files the last invocation
\* left and the same feeds, and the clock has moved on.
Invoke ==
  /\ pc \in {"done", "failed"} /\ run < MaxRuns
  /\ run' = run + 1
  /\ now' = now + 1
  /\ prev_result' = IF result = "0" THEN "0" ELSE "raised"
  /\ pc' = "start" /\ result' = "running"
  /\ xml_at_start' = ReadXml(fs) /\ tmp_at_start' = ReadTmp(fs)
  /\ UNCHANGED <<fs, remote, allowed, i, attempt, last_err, slept, gz_files,
                 gz_idx, pending, scan>>

Next ==
  \/ LoadPlaylist \/ DownloadFetch \/ DownloadOk \/ DownloadRetry
  \/ DownloadRaise
  \/ DownloadUncaught \/ OpenTmp \/ OpenFeed \/ ScanLine \/ WriteFooter
  \/ NoChange \/ Replace \/ SizeCheck \/ Invoke

Spec == Init /\ [][Next]_vars

\* ------------------------------------------------- what the claims speak of
\* The merged output is complete: the temporary file has been closed.
Assembled == pc = "publish"

\* The allow-list of this invocation, also once the process has ended.
AllowList == LoadAllowedTvgIds(fs[PLAYLIST_PATH])

\* The decompressed texts of the feeds, in URL order.
FeedTexts == [k \in 1..NumUrls |-> remote[k].text]

\* The document main() assembles at clock reading t.
FullDocument(t) == HeaderText(t) \o MergedBody(FeedTexts, AllowList) \o FooterText

\* The <channel> and <programme> elements of a text, in order, as a reader
\* of XML sees them, however they lie on lines: [type, key, text].
RECURSIVE BlocksOf(_)
BlocksOf(t) ==
  LET c == Find(t, "<channel ")
      p == Find(t, "<programme ")
      isChannel == c # 0 /\ (p = 0 \/ c < p)
      start == IF isChannel THEN c ELSE p
      close == IF isChannel THEN "</channel>" ELSE "</programme>"
      attr == IF isChannel THEN "id=\"" ELSE "channel=\""
  IN IF start = 0 \/ ~Contains(From(t, start), close) THEN <<>>
     ELSE LET body == From(t, start)
              last == Find(body, close) + Len(close) - 1
              text == SubSeq(body, 1, last)
          IN <<[type |-> IF isChannel THEN "channel" ELSE "programme",
                key |-> IF Contains(text, attr) THEN AttrValue(text, attr) ELSE None,
                text |-> text]>>
             \o BlocksOf(From(body, last + 1))

\* The number of places where p occurs in s.
Count(s, p) ==
  Cardinality({k \in 1..(Len(s) - Len(p) + 1) : SubSeq(s, k, k + Len(p) - 1) = p})

\* C1: once the feeds are scanned, every block of every feed whose key is in
\* the allow-list is in the merged output with its full text, and no block
\* whose key is not in the allow-list has its text in the output.
C1_FilteredExactly ==
  Assembled =>
    \A k \in 1..NumUrls :
      LET blocks == BlocksOf(remote[k].text)
      IN \A n \in DOMAIN blocks :
           Contains(fs[OutTmp], blocks[n].text) <=> blocks[n].key \in allowed

\* C2: a second invocation after one that returned 0, on the same playlist
\* and feeds, does not replace epg.xml and leaves it as it found it.
C2_SecondRunNoChange ==
  (run >= 2 /\ prev_result = "0") =>
    /\ pc # "replaced"
    /\ pc = "done" => ReadXml(fs) = xml_at_start

\* C3: an invocation that ends in an error leaves epg.xml as it found it.
C3_FailureLeavesOutput ==
  pc = "failed" => ReadXml(fs) = xml_at_start

\* C5: the merged output holds one opening root tag and one closing root
\* tag, the opening before the closing, and nothing after the closing tag.
C5_OneRoot ==
  Assembled =>
    LET doc == fs[OutTmp]
    IN /\ Count(doc, "<tv") = 1
       /\ Count(doc, "</tv>") = 1
       /\ Find(doc, "<tv") < Find(doc, "</tv>")
       /\ Find(doc, "</tv>") = Len(doc) - Len(FooterText) + 1

\* The attribute spellings that name a channel identifier, in the loader's
\* order of preference.
IdKeys == <<"tvg-id", "tvgid", "tvg_id">>

\* The metadata lines of a playlist.
ExtinfLines(text) ==
  LET lines == SplitLines(text)
  IN {lines[n] : n \in {m \in DOMAIN lines : StartsWith(lines[m], "#EXTINF")}}

\* Every identifier written on a metadata line, under any of the spellings.
WrittenIds(text) ==
  UNION {LET pairs == AttrFindall(line)
         IN {pairs[n][2] : n \in {m \in DOMAIN pairs :
                                    /\ \E j \in 1..3 : pairs[m][1] = IdKeys[j]
                                    /\ pairs[m][2] # ""}}
         : line \in ExtinfLines(text)}

\* The one identifier a metadata line gives: of its spellings that have a
\* value that is not empty (a repeated attribute counting with its last
\* occurrence), the preferred one, stripped.
LineId(line) ==
  LET pairs == AttrFindall(line)
      Has(key) == \E n \in DOMAIN pairs : pairs[n][1] = key
      LastOf(key) == pairs[CHOOSE n \in DOMAIN pairs :
                             /\ pairs[n][1] = key
                             /\ \A m \in DOMAIN pairs : pairs[m][1] = key => m <= n][2]
      usable == {j \in 1..3 : Has(IdKeys[j]) /\ LastOf(IdKeys[j]) # ""}
  IN IF usable = {} THEN {}
     ELSE {Strip(LastOf(IdKeys[CHOOSE j \in usable : \A h \in usable : j <= h]))}

ExpectedIds(text) == UNION {LineId(line) : line \in ExtinfLines(text)}

\* load_allowed_tvg_ids has just returned its set to main().
Loaded == pc = "download" /\ i = 1 /\ attempt = 1

\* C6, as stated: the set returned holds exactly the identifiers written on
\* the playlist's metadata lines, each unchanged.
C6_ExactlyWrittenIds == Loaded => allowed = WrittenIds(fs[PLAYLIST_PATH])

\* C6, amended: the set returned holds, for each metadata line, the first
\* value that is not empty among its tvg-id, tvgid and tvg_id attributes,
\* with surrounding whitespace stripped, and nothing else.
C6_PreferredStrippedIds == Loaded => allowed = ExpectedIds(fs[PLAYLIST_PATH])

C6_Witness ==
  /\ pc = "download" /\ fs[PLAYLIST_PATH] = PlaylistPadded
  /\ allowed = {"ABC.us"}

\* C7: in every state epg.xml is as the invocation found it (absent, or the
\* document published before), or it is the complete document of this
\* invocation, and then the temporary file had been written and closed.
C7_AtomicPublish ==
  \/ ReadXml(fs) = xml_at_start
  \/ /\ pc \in {"replaced", "done", "failed"}
     /\ ReadXml(fs) = FullDocument(now)

C7_Witness ==
  /\ pc = "replaced" /\ xml_at_start # None /\ fs[OUT_XML] # xml_at_start
  /\ Len(fs[OUT_XML]) > Len(HeaderText(now) \o FooterText)

\* The block type a line opens from the no-block state.
OpensType(line) ==
  IF Contains(line, "<channel ") THEN "channel"
  ELSE IF Contains(line, "<programme ") THEN "programme" ELSE None

CloserOf(type) == IF type = "channel" THEN "</channel>" ELSE "</programme>"

\* C8: after a line that holds the closing marker of the open block, the
\* line that opened the block included, the scanner is in the no-block state
\* with an empty buffer and no key.
C8_ResetOnClose ==
  [][(pc = "scan" /\ pending # <<>>) =>
       LET line == Head(pending)
           open == IF scan.block_type = None THEN OpensType(line)
                   ELSE scan.block_type
       IN (open # None /\ Contains(line, CloserOf(open))) =>
            scan' = VarsOf(ScanInit)]_vars

\* The scan of a feed is about to take the feed's first inner line.
FeedBegins ==
  /\ pc = "scan" /\ gz_idx >= 1
  /\ pending = IterXmltvInnerLines(fs[gz_files[gz_idx]].text)

\* C9: each feed's scan begins in the no-block state with an empty buffer
\* and no key, and the merged blocks are the blocks of each feed scanned
\* alone, concatenated in feed order.
C9_FeedsIndependent ==
  /\ FeedBegins => scan = VarsOf(ScanInit)
  /\ Assembled =>
       fs[OutTmp] = HeaderText(now)
                    \o Join([k \in 1..NumUrls |-> MergedBody(<<remote[k].text>>, allowed)])
                    \o FooterText

\* The file at path exists in f and holds data.
Holds(f, path, data) == path \in DOMAIN f /\ f[path] = data

\* main() is inside a call of download().
Downloading == pc \in {"download", "store"}

\* A step in which a call of lines 52-56 raises: the exception is caught at
\* line 58 and the next attempt follows, or it leaves main().
Raises == pc' = "failed" \/ attempt' = attempt + 1

\* C4: when an attempt has its response, fewer attempts than the budget
\* have failed before it, and unless the write raises, the response is
\* stored at the feed's path, download() returns and main() goes on; when
\* every attempt has failed download() raises the failure and main()
\* aborts; and until all downloads have succeeded epg.xml and epg.xml.tmp
\* are as the invocation found them.
C4_RetryThenSucceedOrAbort ==
  [][/\ pc = "store" =>
          /\ Len(slept) < Retries
          /\ ~Raises =>
               /\ Holds(fs', GzPath(i), remote[i])
               /\ gz_files' = Append(gz_files, GzPath(i))
               /\ pc' \in {"download", "open"} /\ result' = "running"
     /\ (Downloading /\ Len(slept) = Retries) =>
          /\ pc' = "failed"
          /\ \E kind \in TransientErrors : result' = ErrorOf(kind, Retries)
     /\ (pc' \in {"download", "store"} \/ (Downloading /\ pc' = "failed")) =>
          /\ ReadXml(fs') = xml_at_start'
          /\ ReadTmp(fs') = tmp_at_start']_vars

C4_Witness ==
  /\ pc = "failed" /\ result = ErrorOf("URLError", Retries)
  /\ xml_at_start # None /\ ReadXml(fs) = xml_at_start
  /\ Holds(fs, GzPath(1), remote[1]) /\ remote[1].gz
  /\ ~Exists(GzPath(2)) /\ ~Exists(OutTmp)

\* C10: a download makes at most Retries attempts and none after a success;
\* the wait after the k-th failure is 3*k seconds; when the attempts are
\* used up the exception raised is the last attempt's; the feeds are
\* fetched in URL order, feed k to the path numbered k, the next one only
\* after the one before has succeeded.
C10_BoundedRetriesInOrder ==
  [][/\ pc' \in {"download", "store"} =>
          /\ attempt' \in 1..(Retries + 1)
          /\ pc' = "store" => attempt' <= Retries
          /\ Len(slept') = attempt' - 1
          /\ \A k \in 1..Len(slept') : slept'[k] = 3 * k
          /\ \A k \in 1..(Len(slept') - 1) : slept'[k] < slept'[k + 1]
          /\ gz_files' = [k \in 1..(i' - 1) |-> GzPath(k)]
     /\ (Downloading /\ attempt <= Retries /\ ~Raises) =>
          \/ /\ pc = "download" /\ pc' = "store"
             /\ i' = i /\ attempt' = attempt /\ gz_files' = gz_files
          \/ /\ pc = "store"
             /\ Holds(fs', GzPath(i), remote[i])
             /\ gz_files' = Append(gz_files, GzPath(i))
             /\ \/ pc' = "download" /\ i' = i + 1 /\ attempt' = 1
                \/ pc' = "open" /\ i = NumUrls
     /\ (Downloading /\ i' # i) =>
          \/ pc = "store" /\ i' = i + 1 /\ Holds(fs', GzPath(i), remote[i])
          \/ pc' = "failed"
     /\ (Downloading /\ attempt = Retries + 1) =>
          /\ pc' = "failed" /\ result' = last_err
          /\ \E kind \in TransientErrors : last_err = ErrorOf(kind, Retries)]_vars

C10_Witness ==
  /\ pc = "download" /\ i = 2 /\ attempt = Retries + 1
  /\ slept = <<3, 6, 9, 12, 15>>
  /\ gz_files = <<GzPath(1)>> /\ Holds(fs, GzPath(1), remote[1])
====
